---------------------------- MODULE Spec2Model ----------------------------
(***************************************************************************)
(* A model of ceph-export.py: one run of main() against an environment     *)
(* (the files under confdir, whether the ceph command is on PATH, what the *)
(* two ceph invocations print, and whether the output path is writable).   *)
(* Text is a sequence of one-character strings, so that split() is         *)
(* computed and not assumed.  Python's None is <<>>, a value v that may be *)
(* None is <<v>>.                                                          *)
(***************************************************************************)
EXTENDS Integers, Sequences, FiniteSets, TLC

VARIABLES
    which_ceph,      \* shutil.which('ceph') finds the command
    fs,              \* path -> parsed content, for the files that exist
    args,            \* the parsed command line
    status_cmd,      \* what 'ceph -s -f json' does: [rc, out]
    version_cmd,     \* what 'ceph --version' does: [rc, out]
    disk,            \* what open()/write() on args.output does
    pc,              \* position in main()
    keyring,         \* main's local keyring
    ceph_out,        \* main's local ceph_out
    ceph_version_text, \* main's local ceph_version_text
    error,           \* main's local error
    settings,        \* main's local settings (key -> value)
    parsed,          \* the paths get_config() was called on
    invoked,         \* the commands send_command() was called with
    console,         \* what was printed, in order
    outfile,         \* the destination file
    exc,             \* the uncaught exception, if any
    exit_status      \* <<>> while running, <<code>> once the process ended

vars == <<which_ceph, fs, args, status_cmd, version_cmd, disk, pc, keyring,
          ceph_out, ceph_version_text, error, settings, parsed, invoked,
          console, outfile, exc, exit_status>>

env == <<which_ceph, fs, args, status_cmd, version_cmd, disk>>

None == <<>>

\* ------------------------------------------------------------------ bounds
MaxAddrLen == 3
MaxMons == 2
MaxDaemons == 2
MaxWords == 4

\* ------------------------------------------------------------- str methods
\* the first index at which sep occurs in s, 0 when it does not
Find(s, sep) ==
    LET hits == { i \in 1..Len(s) :
                    /\ i + Len(sep) - 1 <= Len(s)
                    /\ SubSeq(s, i, i + Len(sep) - 1) = sep }
    IN  IF hits = {} THEN 0 ELSE CHOOSE i \in hits : \A j \in hits : i <= j

RECURSIVE split(_, _)
\* s.split(sep): the pieces between the occurrences of sep, empty ones kept
split(s, sep) ==
    LET i == Find(s, sep)
    IN  IF i = 0 THEN <<s>>
        ELSE <<SubSeq(s, 1, i - 1)>> \o split(SubSeq(s, i + Len(sep), Len(s)), sep)

Whitespace == {" ", "\n"}

RECURSIVE split_ws(_)
\* s.split(): the maximal runs of non-whitespace characters
split_ws(s) ==
    IF s = <<>> THEN <<>>
    ELSE IF Head(s) \in Whitespace THEN split_ws(Tail(s))
    ELSE LET stops == { i \in 1..Len(s) : s[i] \in Whitespace }
             e == IF stops = {} THEN Len(s) + 1
                  ELSE CHOOSE i \in stops : \A j \in stops : i <= j
         IN  <<SubSeq(s, 1, e - 1)>> \o split_ws(SubSeq(s, e, Len(s)))

RECURSIVE join(_, _)
\* sep.join(words)
join(words, sep) ==
    IF words = <<>> THEN <<>>
    ELSE IF Len(words) = 1 THEN words[1]
    ELSE words[1] \o sep \o join(Tail(words), sep)

RECURSIVE escape(_)
\* the body of repr(bytes): a newline is written as backslash, n
escape(b) ==
    IF b = <<>> THEN <<>>
    ELSE (IF Head(b) = "\n" THEN <<"\\", "n">> ELSE <<Head(b)>>) \o escape(Tail(b))

\* str(b) of a bytes object b: b'...'
str_bytes(b) == <<"b", "'">> \o escape(b) \o <<"'">>


\* ------------------------------------------------------- the configuration
KEYRING_FILE(user) == <<"ceph.client", user, "keyring">>

Defaults == [user |-> "admin", conf_dir |-> "/etc/ceph",
             output |-> "~/rhcs-config-export.yaml", output_format |-> "yaml"]

Choices == [output_format |-> {"yaml"}]

ConfPath == <<"ceph.conf">>
KeystorePath == <<"keyring-store", "keyring">>

\* os.path.isfile(path)
isfile(f, path) == path \in DOMAIN f

\* get_config(filename): the sections of the file; a file that does not
\* exist reads as no sections
get_config(f, filename) == IF isfile(f, filename) THEN f[filename] ELSE <<>>

\* conf.sections()
sections(conf) == DOMAIN conf

\* ready() without its ceph.conf check
ready_no_conf_check(a, w, f) ==
    IF ~w THEN <<FALSE, "ceph command not found!">>
    ELSE IF /\ ~isfile(f, KEYRING_FILE(a.user))
            /\ ~isfile(f, KeystorePath)
         THEN <<FALSE, "missing keyring">>
    ELSE <<TRUE, "">>

\* ready() without its keyring check: it
\* passes when no keyring file exists
ready_no_keyring_check(a, w, f) ==
    IF ~w THEN <<FALSE, "ceph command not found!">>
    ELSE IF ~isfile(f, ConfPath) THEN <<FALSE, "ceph.conf not found">>
    ELSE <<TRUE, "">>

\* ready(): <<ok, message>>
ready(a, w, f) ==
    IF ~w THEN <<FALSE, "ceph command not found!">>
    ELSE IF ~isfile(f, ConfPath) THEN <<FALSE, "ceph.conf not found">>
    ELSE IF /\ ~isfile(f, KEYRING_FILE(a.user))
            /\ ~isfile(f, KeystorePath)
         THEN <<FALSE, "missing keyring">>
    ELSE <<TRUE, "">>

\* find_keyring(), from 'if not conf or not conf.sections()' on: the
\* exception raised (if any) and the value returned (<<>> for None); read is
\* the set of files parsed before
keyring_checks(a, conf, read) ==
    LET name == "client." \o a.user
    IN  IF conf = None \/ sections(conf[1]) = {}
        THEN [parsed |-> read, raised |-> None, value |-> None]
        ELSE IF "client.admin" \notin sections(conf[1])
        THEN [parsed |-> read, raised |-> None, value |-> None]
        ELSE IF name \notin sections(conf[1])
        THEN [parsed |-> read, raised |-> <<"KeyError">>, value |-> None]
        ELSE IF "key" \notin DOMAIN conf[1][name]
        THEN [parsed |-> read, raised |-> None, value |-> None]
        ELSE [parsed |-> read, raised |-> None, value |-> <<conf[1][name]["key"]>>]

\* find_keyring() with 'if' for 'elif': the keystore file is loaded whenever
\* it exists, replacing the dedicated file's conf
find_keyring_if_for_elif(a, f) ==
    LET ceph_conf_keyring == KEYRING_FILE(a.user)
        ceph_conf_keystore == KeystorePath
        first == IF isfile(f, ceph_conf_keyring) THEN {ceph_conf_keyring} ELSE {}
        second == IF isfile(f, ceph_conf_keystore) THEN {ceph_conf_keystore} ELSE {}
        conf == IF second # {} THEN <<get_config(f, ceph_conf_keystore)>>
                ELSE IF first # {} THEN <<get_config(f, ceph_conf_keyring)>>
                ELSE None
    IN  keyring_checks(a, conf, first \cup second)

\* find_keyring(): the files it parsed, the exception it raised (if any) and
\* the value it returned (<<>> for None)
find_keyring(a, f) ==
    LET ceph_conf_keyring == KEYRING_FILE(a.user)
        ceph_conf_keystore == KeystorePath
    IN  IF isfile(f, ceph_conf_keyring)
        THEN keyring_checks(a, <<get_config(f, ceph_conf_keyring)>>, {ceph_conf_keyring})
        ELSE IF isfile(f, ceph_conf_keystore)
        THEN keyring_checks(a, <<get_config(f, ceph_conf_keystore)>>, {ceph_conf_keystore})
        ELSE keyring_checks(a, None, {})

\* a line printed on the console: its text, and the document printed (if any)
Line(text) == [text |-> text, doc |-> None]

\* abort(message): what is printed
abort(message) ==
    Line(IF message # "" THEN <<"Unable to continue", ": ", message>>
         ELSE <<"Unable to continue">>)

\* send_command(cmd): stderr is redirected into stdout, so communicate()
\* returns the merged output and None
send_command(result) == <<result.out, None>>

\* ------------------------------------------------------------- extraction
\* x.rsplit(':', 1)[0]: cut at the last ':' instead of the first
strip_port_rsplit(addr) ==
    LET pieces == split(addr, <<":">>)
    IN  join(SubSeq(pieces, 1, IF Len(pieces) = 1 THEN 1 ELSE Len(pieces) - 1), <<":">>)

\* x.split(':')[0]
strip_port(addr) == split(addr, <<":">>)[1]

\* version_id with index 1 for index 2
version_id_second_token(text) ==
    LET tokens == split_ws(str_bytes(text))
    IN  IF Len(tokens) < 2 THEN None ELSE <<split(tokens[2], <<"-">>)[1]>>

\* str(ceph_version_text).split()[2].split('-')[0]; <<>> stands for the
\* IndexError of a text with fewer than three tokens
version_id(text) ==
    LET tokens == split_ws(str_bytes(text))
    IN  IF Len(tokens) < 3 THEN None ELSE <<split(tokens[3], <<"-">>)[1]>>

PORT == <<"p", "o", "r", "t", "=">>

\* frontend_str.split('port=')[1].split()[0]; <<>> stands for the IndexError
rgw_port(frontend_str) ==
    LET pieces == split(frontend_str, PORT)
    IN  IF Len(pieces) < 2 THEN None
        ELSE LET tokens == split_ws(pieces[2])
             IN  IF tokens = <<>> THEN None ELSE <<tokens[1]>>

\* d.get(k, None) is truthy; every value the model stores under a key other
\* than 'dashboard' is truthy unless it is the empty dict
truthy(d, k) == k \in DOMAIN d /\ d[k] # <<>>

RECURSIVE rgw_ports(_)
\* the loop over daemons (an ordered dict: a list of <<name, value>>): the
\* ports so far, or <<"IndexError">> once a daemon's port cannot be read
rgw_ports(daemons) ==
    IF daemons = <<>> THEN [raised |-> None, rgws |-> <<>>]
    ELSE LET rgw == Head(daemons)[1]
             rest == rgw_ports(Tail(daemons))
         IN  IF rgw = "summary" THEN rest
             ELSE LET frontend_str == Head(daemons)[2]["metadata"]["frontend_config#0"]
                      port == rgw_port(frontend_str)
                  IN  IF port = None THEN [raised |-> <<"IndexError">>, rgws |-> <<>>]
                      ELSE IF rest.raised # None THEN rest
                      ELSE [raised |-> None, rgws |-> <<port[1]>> \o rest.rgws]

\* json.loads(ceph_out): <<>> stands for the JSONDecodeError
json_loads(out) == IF out.json THEN <<out.doc>> ELSE None

\* main(), from json.loads to the call of dump: the exception raised (if
\* any) and the settings built
extract(out, version_text, secret) ==
    LET loaded == json_loads(out)
    IN  IF loaded = None THEN [raised |-> <<"JSONDecodeError">>, settings |-> <<>>]
        ELSE
        LET ceph_state == loaded[1]
            version == version_id(version_text)
            mons == [i \in 1..Len(ceph_state["monmap"]["mons"]) |->
                        strip_port(ceph_state["monmap"]["mons"][i]["public_addr"])]
            base == [fsid |-> ceph_state["fsid"],
                     version |-> version[1],
                     secret |-> secret,
                     mons |-> mons,
                     mgr |-> strip_port(ceph_state["mgrmap"]["active_addr"])]
            mgrmap == ceph_state["mgrmap"]
            with_dashboard ==
                IF "dashboard" \in DOMAIN mgrmap["services"]
                   /\ mgrmap["services"]["dashboard"] # <<>>
                THEN base @@ [dashboard |-> mgrmap["services"]["dashboard"]]
                ELSE base
            has_rgw == /\ truthy(ceph_state, "servicemap")
                       /\ truthy(ceph_state["servicemap"]["services"], "rgw")
            ports == rgw_ports(ceph_state["servicemap"]["services"]["rgw"]["daemons"])
        IN  IF version = None THEN [raised |-> <<"IndexError">>, settings |-> <<>>]
            ELSE IF "services" \notin DOMAIN mgrmap
            THEN [raised |-> <<"KeyError">>, settings |-> <<>>]
            ELSE IF ~has_rgw THEN [raised |-> None, settings |-> with_dashboard]
            ELSE IF ports.raised # None THEN [raised |-> ports.raised, settings |-> <<>>]
            ELSE [raised |-> None, settings |-> with_dashboard @@ [rgws |-> ports.rgws]]

\* ------------------------------------------------------------------ export
\* yaml.safe_dump(settings, indent=2, explicit_start=2)
safe_dump(s) == [explicit_start |-> TRUE, indent |-> "2", doc |-> s]

HOME == <<"/", "root">>

\* os.path.expanduser(path)
expanduser(path) == IF path # <<>> /\ Head(path) = "~" THEN HOME \o Tail(path) ELSE path

\* the names bound at module level when write_file runs
ModuleGlobals == {"os", "sys", "yaml", "json", "shutil", "argparse", "subprocess",
                  "configparser", "KEYRING_FILE", "Defaults", "Choices", "ready",
                  "get_config", "find_keyring", "abort", "help", "send_command",
                  "write_file", "_dump_yaml", "dump", "parse_args", "main", "args"}

\* write_file(content): the file afterwards, what is printed, and the
\* exception raised (if any).  d is what the file system does: "ok",
\* "open_fails" (open raises, the file is untouched) or "write_fails" (the file
\* is opened, hence truncated, and write raises)
write_file(content, a, d, file) ==
    IF d = "ok"
    THEN [file |-> <<"written", content>>,
          printed |-> <<Line(<<"Config written to ", expanduser(a.output)>>)>>,
          raised |-> None]
    ELSE LET left == IF d = "open_fails" THEN file ELSE <<"partial">>
             fallback == Line(<<"Unexpected problem writing the file, dumping config here">>)
         IN  IF "output" \in ModuleGlobals
             THEN [file |-> left,
                   printed |-> <<fallback, [text |-> <<>>, doc |-> <<content>>]>>,
                   raised |-> None]
             ELSE [file |-> left, printed |-> <<fallback>>, raised |-> <<"NameError">>]

\* _dump_yaml(settings)
dump_yaml(s, a, d, file) == write_file(safe_dump(s), a, d, file)

\* ---------------------------------------------------------- environments
\* all texts over alphabet of length at most n
RECURSIVE Texts(_, _)
Texts(alphabet, n) ==
    IF n = 0 THEN {<<>>}
    ELSE LET shorter == Texts(alphabet, n - 1)
         IN  shorter \cup { Append(t, c) : t \in shorter, c \in alphabet }

\* all lists over S of length at most n
RECURSIVE Lists(_, _)
Lists(S, n) ==
    IF n = 0 THEN {<<>>}
    ELSE LET shorter == Lists(S, n - 1)
         IN  shorter \cup { Append(l, x) : l \in shorter, x \in S }

Users == {"admin", "bob"}
Secrets == {"", "AQ=="}
SectionNames == {"client.admin", "client.bob"}
SectionBodies == {<<>>} \cup { [key |-> k] : k \in Secrets }

\* the contents of a keyring file: section -> (option -> value)
KeyringContents == UNION { [S -> SectionBodies] : S \in SUBSET SectionNames }
MaybeKeyring == {None} \cup { <<c>> : c \in KeyringContents }

ConfContent == [global |-> [fsid |-> "abc-123"]]

\* the files under confdir, given which of the three exist and what they hold
Files(u, conf, dedicated, keystore) ==
    LET D == (IF conf THEN {ConfPath} ELSE {})
             \cup (IF dedicated # None THEN {KEYRING_FILE(u)} ELSE {})
             \cup (IF keystore # None THEN {KeystorePath} ELSE {})
    IN  [p \in D |-> IF p = ConfPath THEN ConfContent
                     ELSE IF p = KEYRING_FILE(u) THEN dedicated[1]
                     ELSE keystore[1]]

Args == { [user |-> u, output |-> <<"~", "rhcs-config-export.yaml">>,
           format |-> Defaults.output_format] : u \in Users }

GoodArgs == [user |-> Defaults.user, output |-> <<"~", "rhcs-config-export.yaml">>,
             format |-> Defaults.output_format]
GoodKeyring == [s \in {"client.admin"} |-> [key |-> "AQ=="]]
GoodFiles == Files(Defaults.user, TRUE, <<GoodKeyring>>, None)

Addrs == Texts({"1", ":"}, MaxAddrLen)
MonLists == Lists({ [public_addr |-> a] : a \in Addrs }, MaxMons)
GoodMons == << [public_addr |-> <<"1", ":", "6">>] >>
GoodAddr == <<"2", ":", "6">>

Dashboards == {<<>>, <<"u", "r", "l">>}
\* mgrmap.services: absent, or a dict with or without a dashboard entry
MaybeServices == {None, << <<>> >>} \cup { << [dashboard |-> d] >> : d \in Dashboards }

FrontendConfigs == { <<"c", " ">> \o PORT \o <<"8", "0">>,
                     PORT \o <<"8", " ", "x">>,
                     PORT \o <<"7", " ">> \o PORT \o <<"9">>,
                     <<"b", "e", "a", "s", "t">>,
                     <<"c", " ">> \o PORT }
DaemonNames == {"summary", "rgw.a", "rgw.b"}
DaemonEntries ==
    { <<"summary", <<>> >> }
    \cup { <<n, [metadata |-> ("frontend_config#0" :> c)]>> :
              n \in DaemonNames \ {"summary"}, c \in FrontendConfigs }
\* the daemons dict: an ordered list of entries with distinct names
DaemonDicts == { d \in Lists(DaemonEntries, MaxDaemons) :
                    \A i, j \in 1..Len(d) : i # j => d[i][1] # d[j][1] }
\* the servicemap: absent, empty, or with a services dict with or without rgw
MaybeServiceMaps ==
    {None, << <<>> >>, << [services |-> <<>>] >>}
    \cup { << [services |-> [rgw |-> [daemons |-> d]]] >> : d \in DaemonDicts }

\* the JSON document 'ceph -s -f json' prints
Snapshot(fsid, mons, mgr, services, servicemap) ==
    [fsid |-> fsid, monmap |-> [mons |-> mons]]
    @@ ("mgrmap" :> ([active_addr |-> mgr]
                     @@ (IF services = None THEN <<>> ELSE [services |-> services[1]])))
    @@ (IF servicemap = None THEN <<>> ELSE [servicemap |-> servicemap[1]])

GoodSnapshot == Snapshot("abc-123", GoodMons, GoodAddr, << <<>> >>, None)
GoodStatus == [rc |-> 0, out |-> [json |-> TRUE, doc |-> GoodSnapshot]]

C == <<"c", "e", "p", "h">>
VersionWords == { C, <<"1", ".", "2", ".", "3">>, <<"4", ".", "5", ".", "6", "-", "7">>,
                  <<"(", "x", ")">> }
VersionTexts == { join(ws, <<" ">>) \o nl : ws \in Lists(VersionWords, MaxWords),
                                            nl \in {<<>>, <<"\n">>} }
GoodVersionText == join(<<C, <<"v">>, <<"1", ".", "2", ".", "3">>, <<"(", "x", ")">> >>,
                        <<" ">>) \o <<"\n">>
GoodVersion == [rc |-> 0, out |-> GoodVersionText]

\* a failed invocation prints its complaint on the merged output
ErrorText == join(<<C, <<"E", "r", "r">>, <<"n", "o">>, <<"c", "o", "n", "f">> >>, <<" ">>)
                \o <<"\n">>
FailedStatus == [rc |-> 1, out |-> [json |-> FALSE, doc |-> <<>>]]
FailedVersion == [rc |-> 1, out |-> ErrorText]

Disks == {"ok", "open_fails", "write_fails"}

\* --------------------------------------------------------------- main()
\* the state main() starts in, for an environment
Start ==
    /\ pc = "ready"
    /\ keyring = None
    /\ ceph_out = None
    /\ ceph_version_text = None
    /\ error = None
    /\ settings = <<>>
    /\ parsed = {}
    /\ invoked = <<>>
    /\ console = <<>>
    /\ outfile = <<>>
    /\ exc = None
    /\ exit_status = <<>>

\* every configuration directory, with a few outcomes of the two commands
Init ==
    /\ which_ceph \in BOOLEAN
    /\ args \in Args
    /\ \E conf \in BOOLEAN, dedicated \in MaybeKeyring, keystore \in MaybeKeyring :
          fs = Files(args.user, conf, dedicated, keystore)
    /\ status_cmd \in {GoodStatus, FailedStatus}
    /\ version_cmd \in {GoodVersion, FailedVersion}
    /\ disk \in Disks
    /\ Start

\* a working configuration directory, with every status snapshot
InitStatus ==
    /\ which_ceph = TRUE
    /\ args = GoodArgs
    /\ fs = GoodFiles
    /\ \E doc \in { Snapshot("abc-123", m, GoodAddr, << <<>> >>, None) : m \in MonLists }
               \cup { Snapshot("abc-123", GoodMons, a, << <<>> >>, None) : a \in Addrs }
               \cup { Snapshot(f, GoodMons, GoodAddr, s, sm) :
                         f \in {"abc-123", ""}, s \in MaybeServices, sm \in MaybeServiceMaps } :
          status_cmd = [rc |-> 0, out |-> [json |-> TRUE, doc |-> doc]]
    /\ version_cmd = GoodVersion
    /\ disk = "ok"
    /\ Start

\* a working configuration directory, with every version text
InitVersion ==
    /\ which_ceph = TRUE
    /\ args = GoodArgs
    /\ fs = GoodFiles
    /\ status_cmd = GoodStatus
    /\ \E t \in VersionTexts, rc \in {0, 1} : version_cmd = [rc |-> rc, out |-> t]
    /\ disk = "ok"
    /\ Start

\* sys.exit(1) in abort(message)
Abort(message) ==
    /\ console' = Append(console, abort(message))
    /\ pc' = "aborted"
    /\ exit_status' = <<1>>
    /\ exc' = exc

\* an exception nothing catches: the interpreter ends the process with status 1
Crash(e) ==
    /\ pc' = "crashed"
    /\ exc' = e
    /\ exit_status' = <<1>>

\* ok, _err = ready(); if not ok: abort(_err)
Ready ==
    /\ pc = "ready"
    /\ LET r == ready(args, which_ceph, fs)
       IN  IF ~r[1] THEN Abort(r[2])
           ELSE /\ pc' = "config"
                /\ UNCHANGED <<console, exit_status, exc>>
    /\ UNCHANGED <<env, keyring, ceph_out, ceph_version_text, error, settings,
                   parsed, invoked, outfile>>

\* conf = get_config(...); keyring = find_keyring(); if not keyring: abort(...)
LoadConfig ==
    /\ pc = "config"
    /\ LET k == find_keyring(args, fs)
       IN  /\ parsed' = parsed \cup {ConfPath} \cup k.parsed
           /\ IF k.raised # None
              THEN /\ Crash(k.raised)
                   /\ UNCHANGED <<keyring, console>>
              ELSE /\ keyring' = k.value
                   /\ IF k.value = None \/ k.value = <<"">>
                      THEN Abort("Can't find a keyring to use")
                      ELSE /\ pc' = "status"
                           /\ console' = Append(console,
                                 Line(<<"Fetching state of the local Ceph cluster">>))
                           /\ UNCHANGED <<exit_status, exc>>
    /\ UNCHANGED <<env, ceph_out, ceph_version_text, error, settings, invoked, outfile>>

\* ceph_out, error = send_command('ceph -s -f json'); if error: abort(...)
FetchState ==
    /\ pc = "status"
    /\ invoked' = Append(invoked, "ceph -s -f json")
    /\ LET r == send_command(status_cmd)
       IN  /\ ceph_out' = <<r[1]>>
           /\ error' = r[2]
           /\ IF r[2] # None THEN Abort("ceph command failed - can't determine state")
              ELSE /\ pc' = "version"
                   /\ UNCHANGED <<console, exit_status, exc>>
    /\ UNCHANGED <<env, keyring, ceph_version_text, settings, parsed, outfile>>

\* ceph_version_text, error = send_command('ceph --version'); if error: abort(...)
FetchVersion ==
    /\ pc = "version"
    /\ invoked' = Append(invoked, "ceph --version")
    /\ LET r == send_command(version_cmd)
       IN  /\ ceph_version_text' = <<r[1]>>
           /\ error' = r[2]
           /\ IF r[2] # None THEN Abort("unable to fetch ceph version!")
              ELSE /\ pc' = "extract"
                   /\ UNCHANGED <<console, exit_status, exc>>
    /\ UNCHANGED <<env, keyring, ceph_out, settings, parsed, outfile>>

\* ceph_state = json.loads(ceph_out); settings = ...
Extract ==
    /\ pc = "extract"
    /\ LET x == extract(ceph_out[1], ceph_version_text[1], keyring[1])
       IN  IF x.raised # None
           THEN /\ Crash(x.raised)
                /\ UNCHANGED settings
           ELSE /\ settings' = x.settings
                /\ pc' = "dump"
                /\ UNCHANGED <<exit_status, exc>>
    /\ UNCHANGED <<env, keyring, ceph_out, ceph_version_text, error, parsed,
                   invoked, console, outfile>>

\* dump(settings), and the end of main()
Dump ==
    /\ pc = "dump"
    /\ IF args.format = "yaml"
       THEN LET w == dump_yaml(settings, args, disk, outfile)
            IN  /\ outfile' = w.file
                /\ console' = console \o w.printed
                /\ IF w.raised # None THEN Crash(w.raised)
                   ELSE /\ pc' = "done"
                        /\ exit_status' = <<0>>
                        /\ UNCHANGED exc
       ELSE /\ Abort("Unknown output format requested")
            /\ UNCHANGED outfile
    /\ UNCHANGED <<env, keyring, ceph_out, ceph_version_text, error, settings,
                   parsed, invoked>>

Next == Ready \/ LoadConfig \/ FetchState \/ FetchVersion \/ Extract \/ Dump

Spec == Init /\ [][Next]_vars
SpecStatus == InitStatus /\ [][Next]_vars
SpecVersion == InitVersion /\ [][Next]_vars

\* ---------------------------------------------------------------- claims
Terminal == pc \in {"done", "aborted", "crashed"}

Last(q) == q[Len(q)]

\* the run ended in abort(message): the message is the last thing printed and
\* the exit status is 1
AbortedWith(message) ==
    /\ pc = "aborted"
    /\ console # <<>>
    /\ Last(console) = Line(<<"Unable to continue", ": ", message>>)
    /\ exit_status = <<1>>

\* the run ended in some abort(...)
Aborted ==
    /\ pc = "aborted"
    /\ console # <<>>
    /\ Last(console).text[1] = "Unable to continue"
    /\ exit_status # <<>>
    /\ exit_status # <<0>>

\* dump(settings) was called and has returned or raised
Dumped == Terminal /\ settings # <<>>

Printed(l) == \E i \in 1..Len(console) : console[i] = l

\* C1: when writing the output path fails, write_file prints the serialized
\* content and the fallback notice and the run ends with exit status 0; when
\* it succeeds it reports the path written.
C1_WriteFailureFallsBack ==
    Dumped =>
        /\ pc = "done"
        /\ exit_status = <<0>>
        /\ IF disk = "ok"
           THEN Last(console) = Line(<<"Config written to ", expanduser(args.output)>>)
           ELSE /\ Printed(Line(<<"Unexpected problem writing the file, dumping config here">>))
                /\ Printed([text |-> <<>>, doc |-> <<safe_dump(settings)>>])

\* the invocations made so far include one that failed
InvocationFailed ==
    \/ Len(invoked) >= 1 /\ status_cmd.rc # 0
    \/ Len(invoked) >= 2 /\ version_cmd.rc # 0

\* C2: once an invocation of ceph has failed, main has aborted: it printed
\* 'Unable to continue', the exit status is non-zero, and neither the
\* settings extraction nor the Exporter has run.
C2_CommandFailureAborts ==
    InvocationFailed =>
        /\ Aborted
        /\ settings = <<>>
        /\ outfile = <<>>

\* the keyring file find_keyring loads
LoadedPath == IF isfile(fs, KEYRING_FILE(args.user)) THEN KEYRING_FILE(args.user)
              ELSE KeystorePath

\* the three checks of the Keyring Locator on the loaded structure
KeyringValid ==
    LET conf == fs[LoadedPath]
    IN  /\ DOMAIN conf # {}
        /\ "client.admin" \in DOMAIN conf
        /\ ("client." \o args.user) \in DOMAIN conf
        /\ "key" \in DOMAIN conf["client." \o args.user]

\* C3: find_keyring ends in one of two ways: it returns the key of section
\* client.<user> when the three checks pass, and None in every other case.
C3_FindKeyringTwoOutcomes ==
    ConfPath \in parsed =>
        /\ exc = None
        /\ KeyringValid => keyring = <<fs[LoadedPath]["client." \o args.user]["key"]>>
        /\ ~KeyringValid => keyring = None

\* C4: a run that has ended ended in Done (exit status 0, after the export)
\* or in Abort (a printed message, a non-zero exit status), and a run that did
\* not end in Done has written no part of the output file.
C4_DoneOrAbort ==
    Terminal =>
        \/ /\ pc = "done"
           /\ exit_status = <<0>>
           /\ settings # <<>>
        \/ /\ Aborted
           /\ outfile = <<>>

\* C5 (as stated): when ceph.conf is missing the run can only abort, and it
\* aborts with "ceph.conf not found", a non-zero exit status and no output
\* file, whatever the state of the ceph command.
C5_ConfMissingAsStated ==
    ~isfile(fs, ConfPath) =>
        /\ pc \in {"ready", "aborted"}
        /\ outfile = <<>>
        /\ pc = "aborted" => AbortedWith("ceph.conf not found")

\* C5 (amended): when ceph.conf is missing the run can only abort, with a
\* non-zero exit status and no output file; the condition reported is
\* "ceph.conf not found" when the ceph command is on PATH and "ceph command
\* not found!" when it is not.
C5_ConfMissing ==
    ~isfile(fs, ConfPath) =>
        /\ pc \in {"ready", "aborted"}
        /\ outfile = <<>>
        /\ pc = "aborted" =>
              AbortedWith(IF which_ceph THEN "ceph.conf not found"
                          ELSE "ceph command not found!")

\* C5 witness: ceph is installed, ceph.conf is missing, and the run aborted
C5_Witness ==
    /\ which_ceph
    /\ ~isfile(fs, ConfPath)
    /\ isfile(fs, KeystorePath)
    /\ AbortedWith("ceph.conf not found")

NoKeyringFile == ~isfile(fs, KEYRING_FILE(args.user)) /\ ~isfile(fs, KeystorePath)

\* C6 (as stated): when neither keyring file exists the run can only abort,
\* it aborts with "missing keyring", and no file was parsed and no command
\* invoked.
C6_NoKeyringAsStated ==
    NoKeyringFile =>
        /\ pc \in {"ready", "aborted"}
        /\ parsed = {}
        /\ invoked = <<>>
        /\ pc = "aborted" => AbortedWith("missing keyring")

\* C6 (amended): when neither keyring file exists the run can only abort in
\* the readiness check, before any file is parsed and any command invoked;
\* the condition reported is "missing keyring" when the ceph command and
\* ceph.conf are both present, and the earlier failing check's otherwise.
C6_NoKeyring ==
    NoKeyringFile =>
        /\ pc \in {"ready", "aborted"}
        /\ parsed = {}
        /\ invoked = <<>>
        /\ pc = "aborted" =>
              AbortedWith(IF ~which_ceph THEN "ceph command not found!"
                          ELSE IF ~isfile(fs, ConfPath) THEN "ceph.conf not found"
                          ELSE "missing keyring")

\* C6 witness: ceph and ceph.conf are there, no keyring file is, and the run
\* aborted
C6_Witness ==
    /\ which_ceph
    /\ isfile(fs, ConfPath)
    /\ NoKeyringFile
    /\ AbortedWith("missing keyring")

\* a keyring file's content passes find_keyring's checks for the user
ValidFor(conf, u) ==
    /\ "client.admin" \in DOMAIN conf
    /\ ("client." \o u) \in DOMAIN conf
    /\ "key" \in DOMAIN conf["client." \o u]

\* C7: the keystore file is never read when the dedicated keyring file
\* exists; once find_keyring has run, the file it read is the dedicated file
\* if that exists and the keystore file otherwise, and a key it returned is
\* that file's.
C7_FirstExistingKeyring ==
    /\ isfile(fs, KEYRING_FILE(args.user)) => KeystorePath \notin parsed
    /\ ConfPath \in parsed =>
          /\ parsed = {ConfPath, LoadedPath}
          /\ keyring # None => keyring = <<fs[LoadedPath]["client." \o args.user]["key"]>>

\* C7 witness: the dedicated file exists and fails validation, the keystore
\* file holds a valid key, and find_keyring returned None
C7_Witness ==
    /\ isfile(fs, KEYRING_FILE(args.user))
    /\ isfile(fs, KeystorePath)
    /\ ~ValidFor(fs[KEYRING_FILE(args.user)], args.user)
    /\ ValidFor(fs[KeystorePath], args.user)
    /\ fs[KeystorePath]["client." \o args.user]["key"] # ""
    /\ AbortedWith("Can't find a keyring to use")

\* the document the status command printed
StatusDoc == status_cmd.out.doc

\* r is a with everything from the first ch removed
CutAtFirst(a, r, ch) ==
    /\ Len(r) <= Len(a)
    /\ \A i \in 1..Len(r) : r[i] = a[i] /\ r[i] # ch
    /\ Len(r) < Len(a) => a[Len(r) + 1] = ch

\* C8: the exported fsid is the snapshot's; mons has the length and the order
\* of monmap.mons, each entry being the monitor's public_addr with everything
\* from the first ':' removed; mgr is mgrmap.active_addr cut the same way.
C8_AddressesStripped ==
    settings # <<>> =>
        /\ settings.fsid = StatusDoc.fsid
        /\ Len(settings.mons) = Len(StatusDoc.monmap.mons)
        /\ \A i \in 1..Len(StatusDoc.monmap.mons) :
              CutAtFirst(StatusDoc.monmap.mons[i].public_addr, settings.mons[i], ":")
        /\ CutAtFirst(StatusDoc.mgrmap.active_addr, settings.mgr, ":")

\* C8 witness: two monitors with different hosts, one of them with two ':'
\* in its address, were exported
C8_Witness ==
    /\ pc = "done"
    /\ Len(settings.mons) = 2
    /\ settings.mons[1] # <<>>
    /\ settings.mons[2] # <<>>
    /\ settings.mons[1] # settings.mons[2]
    /\ \E i \in 1..2 : Len(split(StatusDoc.monmap.mons[i].public_addr, <<":">>)) = 3

HasDashboard == /\ "services" \in DOMAIN StatusDoc.mgrmap
                /\ "dashboard" \in DOMAIN StatusDoc.mgrmap.services

HasRgw == /\ "servicemap" \in DOMAIN StatusDoc
          /\ "services" \in DOMAIN StatusDoc.servicemap
          /\ "rgw" \in DOMAIN StatusDoc.servicemap.services

Daemons == StatusDoc.servicemap.services.rgw.daemons

\* every gateway daemon's frontend configuration has a token after 'port='
PortsReadable == HasRgw => rgw_ports(Daemons).raised = None

\* C9: a snapshot without the optional entries does not stop the run (also
\* when mgrmap has no services map); dashboard is exported iff the snapshot
\* has a dashboard entry; rgws is exported iff the service map has an rgw
\* entry, and then holds the port of every daemon other than 'summary'.
C9_OptionalFields ==
    (pc \in {"dump", "done", "crashed"} /\ PortsReadable) =>
        /\ pc # "crashed"
        /\ "dashboard" \in DOMAIN settings <=> HasDashboard
        /\ "rgws" \in DOMAIN settings <=> HasRgw
        /\ HasRgw =>
              /\ Len(settings.rgws) = Cardinality({ i \in 1..Len(Daemons) :
                                                      Daemons[i][1] # "summary" })
              /\ settings.rgws = rgw_ports(Daemons).rgws

Digits == {"0", "1", "2", "3", "4", "5", "6", "7", "8", "9"}

\* tok is digits '.' digits '.' digits
IsVRM(tok) ==
    LET p == split(tok, <<".">>)
    IN  /\ Len(p) = 3
        /\ \A i \in 1..3 : p[i] # <<>> /\ \A k \in 1..Len(p[i]) : p[i][k] \in Digits

RECURSIVE flatten(_)
flatten(ls) == IF ls = <<>> THEN <<>> ELSE Head(ls) \o flatten(Tail(ls))

\* the first major.minor.patch token of text split on whitespace, then on
\* '-': <<token>>, or <<>> when there is none
FirstVRM(text) ==
    LET tokens == split_ws(text)
        pieces == flatten([i \in 1..Len(tokens) |-> split(tokens[i], <<"-">>)])
        hits == { i \in 1..Len(pieces) : IsVRM(pieces[i]) }
    IN  IF hits = {} THEN None
        ELSE <<pieces[CHOOSE i \in hits : \A j \in hits : i <= j]>>

TokenStarts(s) ==
    { i \in 1..Len(s) : s[i] \notin Whitespace /\ (i = 1 \/ s[i - 1] \in Whitespace) }

\* the token of s that starts at i
TokenAt(s, i) ==
    LET ends == { j \in i..Len(s) :
                    /\ \A k \in i..j : s[k] \notin Whitespace
                    /\ j = Len(s) \/ s[j + 1] \in Whitespace }
    IN  SubSeq(s, i, CHOOSE j \in ends : TRUE)

\* the third token of s
ThirdToken(s) ==
    TokenAt(s, CHOOSE i \in TokenStarts(s) :
                  Cardinality({ k \in TokenStarts(s) : k < i }) = 2)

=============================================================================
